---- MODULE Spec2Model ----
(***************************************************************************)
(* Model of the epi_shop views: the catalog (Epis), the cart (Carrinhos),  *)
(* the session's authenticated user, and the HTTP handlers of              *)
(* epi_shops/views.py and login_app/views.py.                              *)
(*                                                                         *)
(* Spec      : every request is handled from start to end before the next  *)
(*             one starts (one request at a time).                         *)
(* SpecConc  : several add_to_cart requests are in flight at once and      *)
(*             interleave at their database queries.                       *)
(***************************************************************************)
EXTENDS Integers, FiniteSets, Sequences, TLC

\* ------------------------------------------------------------------ bounds
\* Largest quantity a form submits and a cart line is allowed to reach.
MaxQty == 3
\* Number of primary keys the Carrinhos table hands out.
MaxLines == 2

\* ------------------------------------------------------------- value sets
Users == {"ana", "bob"}
Anonymous == "AnonymousUser"
EpiIds == {1, 2}
LineIds == 1..MaxLines
Prices == {1, 2}
Methods == {"GET", "POST"}
COMPRA == "COMPRA"
ReqIds == {"r1", "r2"}

\* What a POST carries in its 'quantidade' field: nothing, text that is no
\* number, or the decimal text of an integer.
QtyInputs ==
  {[kind |-> "missing", val |-> 0], [kind |-> "text", val |-> 0]}
    \cup {[kind |-> "int", val |-> n] : n \in (-1)..MaxQty}
\* What a POST carries in the price field of the Epi form.
PriceInputs == Prices \cup {-1}

VARIABLES
  epis,          \* Epis table: pk -> valor
  carrinhos,     \* Carrinhos table: pk -> [usuario, epi, tipo, quantidade]
  session_user,  \* request.user of the session (Anonymous when logged out)
  response,      \* the response to the last finished request
  reqs           \* add_to_cart requests in flight (SpecConc)

vars == <<epis, carrinhos, session_user, response, reqs>>

\* ---------------------------------------------------------------- helpers
\* status; the URL name redirected to or the template rendered; the
\* context's valor_total (<<>> when the view shows none); whether the form
\* rendered carries errors; the message queued (<<>> when none).
Response(status, target, valor_total, errors, message) ==
  [status |-> status, target |-> target, valor_total |-> valor_total,
   errors |-> errors, message |-> message]

Render(template) == Response(200, template, <<>>, FALSE, <<>>)
RenderErrors(template, message) == Response(200, template, <<>>, TRUE, message)
Redirect(to, message) == Response(302, to, <<>>, FALSE, message)
Http404 == Response(404, "", <<>>, FALSE, <<>>)
ServerError == Response(500, "", <<>>, FALSE, <<>>)

\* @login_required / LoginRequiredMixin: an anonymous request is sent to login.
RedirectToLogin ==
  /\ response' = Redirect("login", <<>>)
  /\ UNCHANGED <<epis, carrinhos, session_user, reqs>>

\* AddToCartForm.is_valid(): 'quantidade' is a positive integer.
FormIsValid(data) == data.kind = "int" /\ data.val >= 1

\* EpiForm.is_valid(): the price is not negative.
EpiFormIsValid(valor) == valor >= 0

\* Whether the Carrinhos table declares (usuario, epi, tipo) unique.
CarrinhosUnique == FALSE

\* the lookup of get_or_create(usuario=..., epi=..., tipo=Carrinhos.COMPRA)
GetOrCreateLookupOtherKind(table, usuario, epi) == {}
GetOrCreateLookup(table, usuario, epi) ==
  {l \in DOMAIN table : /\ table[l].usuario = usuario
                        /\ table[l].epi = epi
                        /\ table[l].tipo = COMPRA}

\* get_object_or_404(Carrinhos, pk=item_id, usuario=request.user) finds a row
OwnedLineAnyOwner(table, item_id, usuario) == item_id \in DOMAIN table
OwnedLine(table, item_id, usuario) ==
  item_id \in DOMAIN table /\ table[item_id].usuario = usuario

\* if request.method == 'POST' and form.is_valid(), in add_to_cart
AddPostedAnyData(method, data) == method = "POST"
AddPosted(method, data) == method = "POST" /\ FormIsValid(data)

\* if request.method == 'POST' and form.is_valid(), in update_cart
UpdatePostedAnyData(method, data) == method = "POST" /\ data.kind = "int"
UpdatePosted(method, data) == method = "POST" /\ FormIsValid(data)

\* carrinho.quantidade += quantidade
IncrementReplaces(atual, quantidade) == quantidade
Increment(atual, quantidade) == atual + quantidade

\* form.save() of AddToCartForm(request.POST, instance=item)
FormSaveAdds(item, quantidade) ==
  [item EXCEPT !.quantidade = @ + quantidade]
FormSave(item, quantidade) == [item EXCEPT !.quantidade = quantidade]

\* Carrinhos.objects.filter(usuario=request.user, tipo=Carrinhos.COMPRA)
CarrinhoItens(table, usuario) ==
  {l \in DOMAIN table : table[l].usuario = usuario /\ table[l].tipo = COMPRA}

\* sum(item.epi.valor * item.quantidade for item in carrinho_itens)
RECURSIVE SumQuantities(_, _, _)
SumQuantities(table, catalog, ls) ==
  IF ls = {} THEN 0
  ELSE LET l == CHOOSE x \in ls : TRUE
       IN table[l].quantidade + SumQuantities(table, catalog, ls \ {l})
RECURSIVE SumValor(_, _, _)
SumValor(table, catalog, ls) ==
  IF ls = {} THEN 0
  ELSE LET l == CHOOSE x \in ls : TRUE
       IN catalog[table[l].epi] * table[l].quantidade
            + SumValor(table, catalog, ls \ {l})

Restrict(f, S) == [x \in S |-> f[x]]

NewLine(usuario, epi, quantidade) ==
  [usuario |-> usuario, epi |-> epi, tipo |-> COMPRA,
   quantidade |-> quantidade]

IdleReq == [pc |-> "idle", usuario |-> Anonymous, epi |-> 0, quantidade |-> 0,
            pk |-> 0, lido |-> 0, created |-> FALSE, result |-> ""]

\* ------------------------------------------------------------------- Init
Init ==
  /\ epis = <<>>
  /\ carrinhos = <<>>
  /\ session_user = Anonymous
  /\ response = Render("login")
  /\ reqs = [r \in ReqIds |-> IdleReq]

\* ----------------------------------------------------- login_app handlers
RegisterView(method, valid) ==
  /\ response' = IF method # "POST" THEN Render("register")
                 ELSE IF valid THEN Redirect("login", <<"cadastrado">>)
                 ELSE RenderErrors("register", <<>>)
  /\ UNCHANGED <<epis, carrinhos, session_user, reqs>>

\* authenticated: the user authenticate() returned, Anonymous for None.
login_view(method, authenticated) ==
  /\ IF method = "POST" /\ authenticated # Anonymous
     THEN /\ session_user' = authenticated
          /\ response' = Redirect("epi_list", <<"login realizado">>)
     ELSE /\ session_user' = session_user
          /\ response' = IF method = "POST"
                         THEN RenderErrors("login", <<"credenciais invalidas">>)
                         ELSE Render("login")
  /\ UNCHANGED <<epis, carrinhos, reqs>>

logout_view ==
  IF session_user = Anonymous THEN RedirectToLogin
  ELSE /\ session_user' = Anonymous
       /\ response' = Redirect("login", <<"logout realizado">>)
       /\ UNCHANGED <<epis, carrinhos, reqs>>

\* ------------------------------------------------------- catalog handlers
\* Paginator is not imported: the view raises NameError before it renders.
index ==
  IF session_user = Anonymous THEN RedirectToLogin
  ELSE /\ response' = ServerError
       /\ UNCHANGED <<epis, carrinhos, session_user, reqs>>

EpiList ==
  IF session_user = Anonymous THEN RedirectToLogin
  ELSE /\ response' = Render("epi_list")
       /\ UNCHANGED <<epis, carrinhos, session_user, reqs>>

EpiDetail(pk) ==
  IF session_user = Anonymous THEN RedirectToLogin
  ELSE /\ response' = IF pk \in DOMAIN epis THEN Render("epi_detail")
                      ELSE Http404
       /\ UNCHANGED <<epis, carrinhos, session_user, reqs>>

EpiCreate(method, valor) ==
  IF session_user = Anonymous THEN RedirectToLogin
  ELSE IF method = "POST" /\ EpiFormIsValid(valor)
  THEN /\ \E pk \in EpiIds \ DOMAIN epis : epis' = epis @@ (pk :> valor)
       /\ response' = Redirect("epi_list", <<>>)
       /\ UNCHANGED <<carrinhos, session_user, reqs>>
  ELSE /\ response' = IF method = "POST" THEN RenderErrors("epi_form", <<>>)
                      ELSE Render("epi_form")
       /\ UNCHANGED <<epis, carrinhos, session_user, reqs>>

EpiUpdate(pk, method, valor) ==
  IF session_user = Anonymous THEN RedirectToLogin
  ELSE IF pk \notin DOMAIN epis
  THEN /\ response' = Http404
       /\ UNCHANGED <<epis, carrinhos, session_user, reqs>>
  ELSE IF method = "POST" /\ EpiFormIsValid(valor)
  THEN /\ epis' = [epis EXCEPT ![pk] = valor]
       /\ response' = Redirect("epi_list", <<>>)
       /\ UNCHANGED <<carrinhos, session_user, reqs>>
  ELSE /\ response' = IF method = "POST" THEN RenderErrors("epi_form", <<>>)
                      ELSE Render("epi_form")
       /\ UNCHANGED <<epis, carrinhos, session_user, reqs>>

\* cascade: what the foreign key Carrinhos.epi does when its Epi is deleted
\* (TRUE: the lines go with it; FALSE: the deletion is refused).
EpiDeleteNoLogin(pk, method, cascade) ==
  IF pk \notin DOMAIN epis
  THEN /\ response' = Http404
       /\ UNCHANGED <<epis, carrinhos, session_user, reqs>>
  ELSE IF method # "POST"
  THEN /\ response' = Render("epi_delete")
       /\ UNCHANGED <<epis, carrinhos, session_user, reqs>>
  ELSE LET refs == {l \in DOMAIN carrinhos : carrinhos[l].epi = pk}
       IN IF refs # {} /\ ~cascade
          THEN /\ response' = ServerError
               /\ UNCHANGED <<epis, carrinhos, session_user, reqs>>
          ELSE /\ epis' = Restrict(epis, DOMAIN epis \ {pk})
               /\ carrinhos' = Restrict(carrinhos, DOMAIN carrinhos \ refs)
               /\ response' = Redirect("epi_list", <<>>)
               /\ UNCHANGED <<session_user, reqs>>
EpiDelete(pk, method, cascade) ==
  IF session_user = Anonymous THEN RedirectToLogin
  ELSE IF pk \notin DOMAIN epis
  THEN /\ response' = Http404
       /\ UNCHANGED <<epis, carrinhos, session_user, reqs>>
  ELSE IF method # "POST"
  THEN /\ response' = Render("epi_delete")
       /\ UNCHANGED <<epis, carrinhos, session_user, reqs>>
  ELSE LET refs == {l \in DOMAIN carrinhos : carrinhos[l].epi = pk}
       IN IF refs # {} /\ ~cascade
          THEN /\ response' = ServerError
               /\ UNCHANGED <<epis, carrinhos, session_user, reqs>>
          ELSE /\ epis' = Restrict(epis, DOMAIN epis \ {pk})
               /\ carrinhos' = Restrict(carrinhos, DOMAIN carrinhos \ refs)
               /\ response' = Redirect("epi_list", <<>>)
               /\ UNCHANGED <<session_user, reqs>>

\* ---------------------------------------------------------- cart handlers
add_to_cart(pk, method, data) ==
  IF session_user = Anonymous THEN RedirectToLogin
  ELSE IF pk \notin DOMAIN epis
  THEN /\ response' = Http404
       /\ UNCHANGED <<epis, carrinhos, session_user, reqs>>
  ELSE IF AddPosted(method, data)
  THEN LET quantidade == data.val
           found == GetOrCreateLookup(carrinhos, session_user, pk)
       IN IF found = {}
          THEN \* get_or_create creates the line: created = True
               /\ \E new \in LineIds \ DOMAIN carrinhos :
                    carrinhos' = carrinhos @@
                      (new :> NewLine(session_user, pk, quantidade))
               /\ response' = Redirect("epi_detail",
                                        <<"adicionado", pk, quantidade>>)
               /\ UNCHANGED <<epis, session_user, reqs>>
          ELSE IF Cardinality(found) = 1
          THEN \* created = False: increment and save
               LET l == CHOOSE x \in found : TRUE
                   nova == Increment(carrinhos[l].quantidade, quantidade)
               IN /\ nova <= MaxQty
                  /\ carrinhos' = [carrinhos EXCEPT ![l].quantidade = nova]
                  /\ response' = Redirect("epi_detail",
                                           <<"adicionado", pk, quantidade>>)
                  /\ UNCHANGED <<epis, session_user, reqs>>
          ELSE \* get() raises MultipleObjectsReturned
               /\ response' = ServerError
               /\ UNCHANGED <<epis, carrinhos, session_user, reqs>>
  ELSE /\ response' = IF method = "POST" THEN RenderErrors("add_to_cart", <<>>)
                      ELSE Render("add_to_cart")
       /\ UNCHANGED <<epis, carrinhos, session_user, reqs>>

view_cart ==
  IF session_user = Anonymous THEN RedirectToLogin
  ELSE LET carrinho_itens == CarrinhoItens(carrinhos, session_user)
           valor_total == SumValor(carrinhos, epis, carrinho_itens)
       IN /\ response' = Response(200, "carrinho", <<valor_total>>, FALSE, <<>>)
          /\ UNCHANGED <<epis, carrinhos, session_user, reqs>>

remove_from_cart(item_id) ==
  IF session_user = Anonymous THEN RedirectToLogin
  ELSE IF ~OwnedLine(carrinhos, item_id, session_user)
  THEN /\ response' = Http404
       /\ UNCHANGED <<epis, carrinhos, session_user, reqs>>
  ELSE /\ carrinhos' = Restrict(carrinhos, DOMAIN carrinhos \ {item_id})
       /\ response' = Redirect("view_cart",
                                <<"removido", carrinhos[item_id].epi>>)
       /\ UNCHANGED <<epis, session_user, reqs>>

update_cart(item_id, method, data) ==
  IF session_user = Anonymous THEN RedirectToLogin
  ELSE IF ~OwnedLine(carrinhos, item_id, session_user)
  THEN /\ response' = Http404
       /\ UNCHANGED <<epis, carrinhos, session_user, reqs>>
  ELSE IF UpdatePosted(method, data)
  THEN /\ FormSave(carrinhos[item_id], data.val).quantidade <= MaxQty
       /\ carrinhos' = [carrinhos EXCEPT
                          ![item_id] = FormSave(carrinhos[item_id], data.val)]
       /\ response' = Redirect("view_cart",
                                <<"atualizada", carrinhos[item_id].epi>>)
       /\ UNCHANGED <<epis, session_user, reqs>>
  ELSE /\ response' = IF method = "POST" THEN RenderErrors("update_cart", <<>>)
                      ELSE Render("update_cart")
       /\ UNCHANGED <<epis, carrinhos, session_user, reqs>>

\* ------------------------------------------------------------------- Spec
Next ==
  \/ \E m \in Methods, valid \in BOOLEAN : RegisterView(m, valid)
  \/ \E m \in Methods, u \in Users \cup {Anonymous} : login_view(m, u)
  \/ logout_view
  \/ index
  \/ EpiList
  \/ \E pk \in EpiIds : EpiDetail(pk)
  \/ \E m \in Methods, v \in PriceInputs : EpiCreate(m, v)
  \/ \E pk \in EpiIds, m \in Methods, v \in PriceInputs : EpiUpdate(pk, m, v)
  \/ \E pk \in EpiIds, m \in Methods, c \in BOOLEAN : EpiDelete(pk, m, c)
  \/ \E pk \in EpiIds, m \in Methods, d \in QtyInputs : add_to_cart(pk, m, d)
  \/ view_cart
  \/ \E l \in LineIds : remove_from_cart(l)
  \/ \E l \in LineIds, m \in Methods, d \in QtyInputs : update_cart(l, m, d)

Spec == Init /\ [][Next]_vars

\* ------------------------------------- add_to_cart, one query at a time
\* Lines 128-136: the request's user, the Epi lookup, the method and the
\* form. A request that gets past them holds its user, Epi and quantity.
AddStart(r, pk, method, data) ==
  /\ reqs[r].pc \in {"idle", "done"}
  /\ reqs' = [reqs EXCEPT ![r] =
       IF session_user = Anonymous
       THEN [IdleReq EXCEPT !.pc = "done", !.result = "login"]
       ELSE IF pk \notin DOMAIN epis
       THEN [IdleReq EXCEPT !.pc = "done", !.result = "404"]
       ELSE IF AddPosted(method, data)
       THEN [IdleReq EXCEPT !.pc = "get", !.usuario = session_user,
                            !.epi = pk, !.quantidade = data.val]
       ELSE [IdleReq EXCEPT !.pc = "done", !.result = "render"]]
  /\ UNCHANGED <<epis, carrinhos, session_user, response>>

\* get_or_create's SELECT: the line it found, none, or more than one.
AddGetTakesFirst(r) ==
  /\ reqs[r].pc = "get"
  /\ LET found == GetOrCreateLookup(carrinhos, reqs[r].usuario, reqs[r].epi)
     IN reqs' = [reqs EXCEPT ![r] =
          IF found = {}
          THEN [@ EXCEPT !.pc = "create"]
          ELSE LET l == CHOOSE x \in found : TRUE
               IN [@ EXCEPT !.pc = "save", !.pk = l,
                            !.lido = carrinhos[l].quantidade]]
  /\ UNCHANGED <<epis, carrinhos, session_user, response>>
AddGet(r) ==
  /\ reqs[r].pc = "get"
  /\ LET found == GetOrCreateLookup(carrinhos, reqs[r].usuario, reqs[r].epi)
     IN reqs' = [reqs EXCEPT ![r] =
          IF found = {}
          THEN [@ EXCEPT !.pc = "create"]
          ELSE IF Cardinality(found) = 1
          THEN LET l == CHOOSE x \in found : TRUE
               IN [@ EXCEPT !.pc = "save", !.pk = l,
                            !.lido = carrinhos[l].quantidade]
          ELSE [@ EXCEPT !.pc = "done", !.result = "error"]]
  /\ UNCHANGED <<epis, carrinhos, session_user, response>>

\* get_or_create's INSERT, then the success message and the redirect.
AddCreate(r) ==
  /\ reqs[r].pc = "create"
  /\ IF CarrinhosUnique
        /\ GetOrCreateLookup(carrinhos, reqs[r].usuario, reqs[r].epi) # {}
     THEN \* IntegrityError: get_or_create looks the line up again
          /\ reqs' = [reqs EXCEPT ![r].pc = "get"]
          /\ UNCHANGED carrinhos
     ELSE \E new \in LineIds \ DOMAIN carrinhos :
            /\ carrinhos' = carrinhos @@
                 (new :> NewLine(reqs[r].usuario, reqs[r].epi,
                                 reqs[r].quantidade))
            /\ reqs' = [reqs EXCEPT ![r].pc = "done", ![r].pk = new,
                                    ![r].created = TRUE,
                                    ![r].result = "redirect"]
  /\ UNCHANGED <<epis, session_user, response>>

\* The quantity carrinho.save() writes: the one this request read, plus its own.
SavedQuantityAtomic(table, req) ==
  table[req.pk].quantidade + req.quantidade
SavedQuantity(table, req) == Increment(req.lido, req.quantidade)

\* carrinho.quantidade += quantidade; carrinho.save(); then the redirect.
AddSave(r) ==
  /\ reqs[r].pc = "save"
  /\ SavedQuantity(carrinhos, reqs[r]) <= MaxQty
  /\ carrinhos' =
       (reqs[r].pk :> NewLine(reqs[r].usuario, reqs[r].epi,
                              SavedQuantity(carrinhos, reqs[r])))
         @@ carrinhos
  /\ reqs' = [reqs EXCEPT ![r].pc = "done", ![r].result = "redirect"]
  /\ UNCHANGED <<epis, session_user, response>>

\* A user is logged in and the catalog holds two Epis; the cart is empty.
InitConc ==
  /\ epis = (1 :> 1) @@ (2 :> 2)
  /\ carrinhos = <<>>
  /\ session_user \in Users
  /\ response = Redirect("epi_list", <<>>)
  /\ reqs = [r \in ReqIds |-> IdleReq]

NextConc ==
  \/ \E r \in ReqIds, pk \in EpiIds, m \in Methods, d \in QtyInputs :
       AddStart(r, pk, m, d)
  \/ \E r \in ReqIds : AddGet(r)
  \/ \E r \in ReqIds : AddCreate(r)
  \/ \E r \in ReqIds : AddSave(r)

SpecConc == InitConc /\ [][NextConc]_vars

\* ================================================================= claims
\* The lines of one (user, item, kind) triple, read off a table.
LinesOfTriple(table, usuario, epi, tipo) ==
  {l \in DOMAIN table : table[l] \in [usuario : {usuario}, epi : {epi},
                                      tipo : {tipo}, quantidade : Int]}

\* Line l is in the table and belongs to the session's user.
OwnedBySession(table, l) ==
  l \in DOMAIN table /\ table[l].usuario = session_user

\* Line l is in the table and belongs to somebody else.
OwnedByOther(table, l) ==
  l \in DOMAIN table /\ table[l].usuario # session_user

\* Price times quantity of the user's lines, added up line id by line id,
\* whatever the line's kind, at the catalog's current prices.
RECURSIVE TotalUpTo(_, _)
TotalUpTo(usuario, n) ==
  IF n = 0 THEN 0
  ELSE TotalUpTo(usuario, n - 1)
         + (IF n \in DOMAIN carrinhos /\ carrinhos[n].usuario = usuario
            THEN epis[carrinhos[n].epi] * carrinhos[n].quantidade
            ELSE 0)

\* A request of the session to one of the cart's three writing handlers.
CartWrite ==
  \/ \E pk \in EpiIds, m \in Methods, d \in QtyInputs : add_to_cart(pk, m, d)
  \/ \E l \in LineIds, m \in Methods, d \in QtyInputs : update_cart(l, m, d)
  \/ \E l \in LineIds : remove_from_cart(l)

\* A request of the session to any view behind login_required.
ProtectedRequest ==
  \/ index
  \/ EpiList
  \/ \E pk \in EpiIds : EpiDetail(pk)
  \/ \E m \in Methods, v \in PriceInputs : EpiCreate(m, v)
  \/ \E pk \in EpiIds, m \in Methods, v \in PriceInputs : EpiUpdate(pk, m, v)
  \/ \E pk \in EpiIds, m \in Methods, c \in BOOLEAN : EpiDelete(pk, m, c)
  \/ view_cart
  \/ logout_view
  \/ CartWrite

\* C1: a successful add_to_cart POST of quantity q by user u for item i
\* leaves exactly one line for (u, i, COMPRA); when none existed its quantity
\* is q, when one existed it is the same line and its quantity grew by q. So
\* q1 then q2 from an empty cart gives one line holding q1 + q2.
C1_AddThenAddSums ==
  [][\A pk \in EpiIds, q \in 1..MaxQty :
       response'.message = <<"adicionado", pk, q>>
       => LET before == LinesOfTriple(carrinhos, session_user, pk, COMPRA)
              after == LinesOfTriple(carrinhos', session_user, pk, COMPRA)
          IN /\ Cardinality(after) = 1
             /\ before = {}
                  => \A l \in after : carrinhos'[l].quantidade = q
             /\ before # {}
                  => /\ after = before
                     /\ \A l \in after :
                          carrinhos'[l].quantidade = carrinhos[l].quantidade + q
     ]_vars

\* The last request added 2 of an item whose single line now holds 3: the
\* second add met a line of quantity 1 and incremented it.
C1_Witness ==
  \E pk \in EpiIds :
    /\ response.message = <<"adicionado", pk, 2>>
    /\ \E l \in LinesOfTriple(carrinhos, session_user, pk, COMPRA) :
         carrinhos[l].quantidade = 3

\* C2: with one request at a time, the cart never holds two lines of the
\* same (user, item, kind).
C2_OneLinePerTriple ==
  \A l1 \in DOMAIN carrinhos, l2 \in DOMAIN carrinhos :
    (/\ carrinhos[l1].usuario = carrinhos[l2].usuario
     /\ carrinhos[l1].epi = carrinhos[l2].epi
     /\ carrinhos[l1].tipo = carrinhos[l2].tipo) => l1 = l2

\* Two users each hold a line of the same item.
C2_Witness ==
  \E l1 \in DOMAIN carrinhos, l2 \in DOMAIN carrinhos :
    /\ carrinhos[l1].epi = carrinhos[l2].epi
    /\ carrinhos[l1].usuario # carrinhos[l2].usuario

C4_OtherUsersLinesUntouched ==
  [][/\ \A l \in LineIds, m \in Methods, d \in QtyInputs :
          (/\ session_user \in Users
           /\ OwnedByOther(carrinhos, l)
           /\ (remove_from_cart(l) \/ update_cart(l, m, d)))
          => (response'.status = 404 /\ carrinhos' = carrinhos)
     /\ CartWrite
          => \A l \in LineIds :
               (OwnedByOther(carrinhos, l) \/ OwnedByOther(carrinhos', l))
               => /\ l \in DOMAIN carrinhos
                  /\ l \in DOMAIN carrinhos'
                  /\ carrinhos'[l] = carrinhos[l]
     ]_vars

\* Every item exists, every line exists and is somebody else's, and the
\* user's last request was answered 404: it named another user's line.
C4_Witness ==
  /\ session_user \in Users
  /\ response.status = 404
  /\ DOMAIN epis = EpiIds
  /\ DOMAIN carrinhos = LineIds
  /\ \A l \in LineIds : OwnedByOther(carrinhos, l)

\* C5: an update_cart POST by the line's owner with quantity 0 or less
\* re-renders the form with errors and leaves the cart as it was; and every
\* stored line has quantity at least 1.
C5_UpdateRejectsNonPositive ==
  /\ [][\A l \in LineIds, d \in QtyInputs :
          (/\ OwnedBySession(carrinhos, l)
           /\ d.kind = "int" /\ d.val <= 0
           /\ update_cart(l, "POST", d))
          => /\ response'.status = 200
             /\ response'.target = "update_cart"
             /\ response'.errors
             /\ carrinhos' = carrinhos
       ]_vars
  /\ [](\A l \in DOMAIN carrinhos : carrinhos[l].quantidade >= 1)

\* The owner of a line was shown the update form again, with errors.
C5_Witness ==
  /\ response.target = "update_cart"
  /\ response.errors
  /\ \E l \in LineIds : OwnedBySession(carrinhos, l)

\* C6: an add_to_cart that is not a POST, or whose quantity is not a
\* positive integer, or whose item does not exist, leaves the cart as it was.
C6_InvalidAddChangesNothing ==
  [][\A pk \in EpiIds, m \in Methods, d \in QtyInputs :
       (/\ add_to_cart(pk, m, d)
        /\ \/ m # "POST"
           \/ d.kind # "int"
           \/ d.val < 1
           \/ pk \notin DOMAIN epis)
       => carrinhos' = carrinhos
     ]_vars

\* A user holding a line posted an invalid add and got the form back.
C6_Witness ==
  /\ response.target = "add_to_cart"
  /\ response.errors
  /\ \E l \in LineIds : OwnedBySession(carrinhos, l)

\* C7: a valid update_cart POST of quantity q by the owner of line l sets
\* that line's quantity to q and changes nothing else of the cart.
C7_UpdateReplaces ==
  [][\A l \in LineIds, d \in QtyInputs :
       (/\ OwnedBySession(carrinhos, l)
        /\ d.kind = "int" /\ d.val >= 1
        /\ update_cart(l, "POST", d))
       => /\ carrinhos' = [carrinhos EXCEPT ![l].quantidade = d.val]
          /\ response'.status = 302
          /\ response'.target = "view_cart"
     ]_vars

\* After a successful update the updated line holds 1: no increment of a
\* stored quantity ends there.
C7_Witness ==
  /\ Len(response.message) = 2
  /\ response.message[1] = "atualizada"
  /\ \E l \in LinesOfTriple(carrinhos, session_user, response.message[2],
                            COMPRA) :
       carrinhos[l].quantidade = 1

\* C8: two add_to_cart calls that both found the same line with the same
\* quantity q0 and both reported success leave q0 + q1 or q0 + q2 in it,
\* never q0 + q1 + q2: one of the two increments is lost.
C8_LostUpdate ==
  \A r1 \in ReqIds, r2 \in ReqIds :
    (/\ r1 # r2
     /\ reqs[r1].pc = "done" /\ reqs[r1].result = "redirect"
     /\ reqs[r2].pc = "done" /\ reqs[r2].result = "redirect"
     /\ ~reqs[r1].created /\ ~reqs[r2].created
     /\ reqs[r1].pk = reqs[r2].pk
     /\ reqs[r1].lido = reqs[r2].lido)
    => carrinhos[reqs[r1].pk].quantidade
         \in {reqs[r1].lido + reqs[r1].quantidade,
              reqs[r2].lido + reqs[r2].quantidade}

\* Both calls read q0 = 1 of the same line, both succeeded, and the line
\* holds 2 where 1 + 1 + 1 was added.
C8_Witness ==
  \E r1 \in ReqIds, r2 \in ReqIds :
    /\ r1 # r2
    /\ reqs[r1].pc = "done" /\ reqs[r1].result = "redirect"
    /\ reqs[r2].pc = "done" /\ reqs[r2].result = "redirect"
    /\ ~reqs[r1].created /\ ~reqs[r2].created
    /\ reqs[r1].pk = reqs[r2].pk
    /\ reqs[r1].lido = 1 /\ reqs[r2].lido = 1
    /\ reqs[r1].quantidade = 1 /\ reqs[r2].quantidade = 1
    /\ carrinhos[reqs[r1].pk].quantidade = 2

\* C10: when the cart holds more than one line of a request's (user, item,
\* COMPRA), that request's get_or_create lookup ends the request with an
\* error and the cart is left as it was.
C10_DuplicatesBlockAdd ==
  [][\A r \in ReqIds :
       (/\ reqs[r].pc = "get"
        /\ reqs'[r] # reqs[r]
        /\ Cardinality(LinesOfTriple(carrinhos, reqs[r].usuario, reqs[r].epi,
                                     COMPRA)) > 1)
       => /\ reqs'[r].pc = "done"
          /\ reqs'[r].result = "error"
          /\ carrinhos' = carrinhos
     ]_vars

\* Two lines of one (user, item, COMPRA) exist, both inserted by concurrent
\* calls, and a further add_to_cart for the pair ended in the error.
C10_Witness ==
  \E r \in ReqIds :
    /\ reqs[r].pc = "done"
    /\ reqs[r].result = "error"
    /\ Cardinality(LinesOfTriple(carrinhos, reqs[r].usuario, reqs[r].epi,
                                 COMPRA)) = 2

\* C9: while the session has no authenticated user, every protected request
\* is redirected to login and leaves catalog, cart and session as they were;
\* and a login attempt that authenticate() rejects leaves the session's user
\* as it was.
C9_AnonymousIsRedirected ==
  [][/\ (session_user = Anonymous /\ ProtectedRequest)
          => /\ response' = Redirect("login", <<>>)
             /\ epis' = epis
             /\ carrinhos' = carrinhos
             /\ session_user' = Anonymous
     /\ (\E m \in Methods : login_view(m, Anonymous))
          => session_user' = session_user
     ]_vars

\* Logged out, with items and cart lines in the stores, the last request was
\* sent to login.
C9_Witness ==
  /\ session_user = Anonymous
  /\ response = Redirect("login", <<>>)
  /\ epis # <<>>
  /\ carrinhos # <<>>

====
